---- MODULE Spec2Model ----
(***************************************************************************)
(* emoru (src/src/main.rs): the emoji picker's search session, its fuzzy   *)
(* matcher, its highlighter, its frecency scorer and its event log.        *)
(*                                                                         *)
(* A Rust String / &str is a sequence of characters, each character a      *)
(* one-character TLA+ string.  Option<T> is a sequence of length at most   *)
(* one: <<>> is None and <<v>> is Some(v).                                 *)
(***************************************************************************)
EXTENDS Integers, Sequences, FiniteSets, TLC

VARIABLES
    emojis,          \* AppState.emojis: the corpus, a sequence of entry strings
    selections,      \* AppState.selections: loaded once by load_selections()
    letters,         \* AppState.letters: the typed query buffer
    matches,         \* AppState.matches: the MatchSet
    selected_index,  \* AppState.selected_index (i32)
    selected_emoji,  \* AppState.selected_emoji: Option<String>
    visible,         \* the window is shown (the event loop delivers events)
    log,             \* the lines of ~/emoru_strokes.jsonl
    clock,           \* what current_timestamp() returns, in seconds
    now,             \* compute_frecency_for_query's `now` in the last search()
    disk_free,       \* records the disk still accepts before appends fail
    args,            \* the arguments of the pure function under check
    ret              \* its result: <<>> before the call, <<value>> after

vars == <<emojis, selections, letters, matches, selected_index, selected_emoji,
          visible, log, clock, now, disk_free, args, ret>>

session_vars == <<emojis, selections, letters, matches, selected_index,
                  selected_emoji, visible, log, clock, now, disk_free>>

(***************************************************************************)
(* Bounds of the model.                                                    *)
(***************************************************************************)
MaxLetters == 2      \* characters typed into the query buffer
MaxLogAppends == 1   \* records the log file accepts before writes fail
MaxTermLen == 3      \* length of a search term handed to term_matches_word
MaxWordLen == 4      \* length of a word handed to term_matches_word
MaxEntryLen == 5     \* length of a corpus row handed to entry_matches_terms
MaxTerms == 2        \* terms in a term list handed to a pure function
MaxTextLen == 4      \* length of a text handed to build_highlight_segments
MaxSelections == 2   \* selections handed to compute_frecency_for_query

(***************************************************************************)
(* Characters and strings.                                                 *)
(***************************************************************************)
UpperCase == <<"A", "B", "C", "D", "E", "F", "G", "H", "I", "J", "K", "L", "M",
               "N", "O", "P", "Q", "R", "S", "T", "U", "V", "W", "X", "Y", "Z", "É">>
LowerCase == <<"a", "b", "c", "d", "e", "f", "g", "h", "i", "j", "k", "l", "m",
               "n", "o", "p", "q", "r", "s", "t", "u", "v", "w", "x", "y", "z", "é">>

\* char::to_lowercase().next(): the lowercase of one character
char_to_lowercase(c) ==
    IF \E k \in 1..Len(UpperCase) : UpperCase[k] = c
    THEN LowerCase[CHOOSE k \in 1..Len(UpperCase) : UpperCase[k] = c]
    ELSE c

\* str::to_lowercase()
to_lowercase(s) == [k \in 1..Len(s) |-> char_to_lowercase(s[k])]

\* char::is_whitespace
is_whitespace(c) == c \in {" ", "\t"}

\* char::len_utf8: the bytes a character takes in a Rust string
len_utf8(c) == IF c \in {"é", "É"} THEN 2 ELSE 1

\* str::is_empty
is_empty(s) == Len(s) = 0

\* str::starts_with, character by character
RECURSIVE starts_with_from(_, _, _)
starts_with_from(s, p, k) ==
    IF k > Len(p) THEN TRUE
    ELSE IF k > Len(s) THEN FALSE
    ELSE IF s[k] # p[k] THEN FALSE
    ELSE starts_with_from(s, p, k + 1)

starts_with(s, p) == starts_with_from(s, p, 1)

\* str::split("| "): left to right, non-overlapping; always at least one part
RECURSIVE split_pipe_from(_, _, _, _)
split_pipe_from(s, i, cur, acc) ==
    IF i > Len(s) THEN Append(acc, cur)
    ELSE IF i + 1 <= Len(s) /\ s[i] = "|" /\ s[i + 1] = " "
         THEN split_pipe_from(s, i + 2, <<>>, Append(acc, cur))
         ELSE split_pipe_from(s, i + 1, Append(cur, s[i]), acc)

split_pipe(s) == split_pipe_from(s, 1, <<>>, <<>>)

\* str::split_whitespace(): the maximal runs of non-whitespace characters
RECURSIVE split_whitespace_from(_, _, _, _)
split_whitespace_from(s, i, cur, acc) ==
    IF i > Len(s) THEN (IF cur = <<>> THEN acc ELSE Append(acc, cur))
    ELSE IF is_whitespace(s[i])
         THEN split_whitespace_from(s, i + 1, <<>>,
                                    IF cur = <<>> THEN acc ELSE Append(acc, cur))
         ELSE split_whitespace_from(s, i + 1, Append(cur, s[i]), acc)

split_whitespace(s) == split_whitespace_from(s, 1, <<>>, <<>>)

(***************************************************************************)
(* Fuzzy Matcher.                                                          *)
(***************************************************************************)
\* the loops of term_matches_word: i is the next term character, j the next
\* character the word iterator yields; a consumed word character is never
\* revisited
RECURSIVE subsequence_scan(_, _, _, _)
subsequence_scan(term, i, word, j) ==
    IF i > Len(term) THEN TRUE
    ELSE IF j > Len(word) THEN FALSE
    ELSE IF word[j] = term[i] THEN subsequence_scan(term, i + 1, word, j + 1)
    ELSE subsequence_scan(term, i, word, j + 1)

\* a scan that restarts the word for every term character
RECURSIVE subsequence_scan_restarting(_, _, _, _)
subsequence_scan_restarting(term, i, word, j) ==
    IF i > Len(term) THEN TRUE
    ELSE IF j > Len(word) THEN FALSE
    ELSE IF word[j] = term[i] THEN subsequence_scan_restarting(term, i + 1, word, 2)
    ELSE subsequence_scan_restarting(term, i, word, j + 1)

term_matches_word_restarting(term, word) ==
    IF Len(term) = 0 THEN TRUE
    ELSE IF Len(word) = 0 THEN FALSE
    ELSE IF term[1] # word[1] THEN FALSE
    ELSE subsequence_scan_restarting(term, 2, word, 2)

term_matches_word(term, word) ==
    IF Len(term) = 0 THEN TRUE
    ELSE IF Len(word) = 0 THEN FALSE
    ELSE IF term[1] # word[1] THEN FALSE
    ELSE subsequence_scan(term, 2, word, 2)

\* entry_matches_terms matching against the glyph field instead of the description
entry_matches_terms_glyph(entry, terms) ==
    LET parts == split_pipe(entry) IN
    IF Len(parts) < 2 THEN FALSE
    ELSE LET description == to_lowercase(parts[1])
             words == split_whitespace(description)
         IN \A t \in 1..Len(terms) :
                \/ is_empty(terms[t])
                \/ \E w \in 1..Len(words) : term_matches_word(terms[t], words[w])

entry_matches_terms(entry, terms) ==
    LET parts == split_pipe(entry) IN
    IF Len(parts) < 2 THEN FALSE
    ELSE LET description == to_lowercase(parts[2])
             words == split_whitespace(description)
         IN \A t \in 1..Len(terms) :
                \/ is_empty(terms[t])
                \/ \E w \in 1..Len(words) : term_matches_word(terms[t], words[w])

(***************************************************************************)
(* Highlighter.                                                            *)
(***************************************************************************)
\* str::len(): the length in bytes
byte_len(s) ==
    LET RECURSIVE sum(_)
        sum(k) == IF k = 0 THEN 0 ELSE sum(k - 1) + len_utf8(s[k])
    IN sum(Len(s))

\* the byte offset char_indices() pairs with the k-th character (k from 1)
byte_offset(s, k) == byte_len(SubSeq(s, 1, k - 1))

\* the loop of find_fuzzy_match_indices: None, or the indices pushed so far
\* followed by those of the remaining term characters
RECURSIVE fuzzy_indices_scan(_, _, _, _, _)
fuzzy_indices_scan(term, i, word, j, indices) ==
    IF i > Len(term) THEN <<indices>>
    ELSE IF j > Len(word) THEN <<>>
    ELSE IF char_to_lowercase(word[j]) = char_to_lowercase(term[i])
         THEN fuzzy_indices_scan(term, i + 1, word, j + 1,
                                 Append(indices, byte_offset(word, j)))
         ELSE fuzzy_indices_scan(term, i, word, j + 1, indices)

\* find_fuzzy_match_indices without the test on the first characters: the
\* first term character is looked for anywhere in the word
find_fuzzy_match_indices_unanchored(term, word) ==
    IF Len(term) = 0 THEN <<>>
    ELSE fuzzy_indices_scan(term, 1, word, 1, <<>>)

find_fuzzy_match_indices(term, word) ==
    IF Len(term) = 0 THEN <<>>
    ELSE IF Len(word) = 0 THEN <<>>
    ELSE IF char_to_lowercase(term[1]) # char_to_lowercase(word[1]) THEN <<>>
    ELSE fuzzy_indices_scan(term, 2, word, 2, <<byte_offset(word, 1)>>)

\* text[from..].find(word), in characters: the first position at or after
\* `from` where word occurs, 0 when there is none
find_from(text, from, word) ==
    LET hits == {p \in from..(Len(text) - Len(word) + 1) :
                    SubSeq(text, p, p + Len(word) - 1) = word}
    IN IF hits = {} THEN 0 ELSE CHOOSE p \in hits : \A q \in hits : p <= q

\* the byte offsets one word marks: every index of every successful term match
word_highlights(word, abs_start, terms, text_len) ==
    LET word_lower == to_lowercase(word)
        found(t) == find_fuzzy_match_indices(terms[t], word_lower)
    IN { abs_start + found(t)[1][n] :
           <<t, n>> \in { tn \in (1..Len(terms)) \X (1..Len(word)) :
                            /\ ~is_empty(terms[tn[1]])
                            /\ found(tn[1]) # <<>>
                            /\ tn[2] <= Len(found(tn[1])[1])
                            /\ abs_start + found(tn[1])[1][tn[2]] < text_len } }

\* the word loop of build_highlight_segments: word_start is kept as the
\* character position (from 1) of the byte offset the code keeps
RECURSIVE highlight_positions_from(_, _, _, _, _, _)
highlight_positions_from(text, words, w, word_start, terms, marked) ==
    IF w > Len(words) THEN marked
    ELSE LET pos == find_from(text, word_start, words[w]) IN
         IF pos = 0
         THEN highlight_positions_from(text, words, w + 1, word_start, terms, marked)
         ELSE highlight_positions_from(
                  text, words, w + 1, pos + Len(words[w]), terms,
                  marked \cup word_highlights(words[w], byte_offset(text, pos),
                                              terms, byte_len(text)))

highlight_positions(text, terms) ==
    highlight_positions_from(text, split_whitespace(text), 1, 1, terms, {})

\* the segment loop: segments pushed so far, the current run and its weight
RECURSIVE build_segments_from(_, _, _, _, _, _)
build_segments_from(text, k, marked, segments, current_text, current_bold) ==
    IF k > Len(text)
    THEN IF current_text # <<>>
         THEN Append(segments, [text |-> current_text, bold |-> current_bold])
         ELSE segments
    ELSE LET should_bold == byte_offset(text, k) \in marked
             cb == IF k = 1 THEN should_bold ELSE current_bold
         IN IF should_bold # cb
            THEN build_segments_from(
                     text, k + 1, marked,
                     IF current_text # <<>>
                     THEN Append(segments, [text |-> current_text, bold |-> cb])
                     ELSE segments,
                     <<text[k]>>, should_bold)
            ELSE build_segments_from(text, k + 1, marked, segments,
                                     Append(current_text, text[k]), cb)

\* build_highlight_segments dropping the run that is open when the weight changes
RECURSIVE build_segments_dropping(_, _, _, _, _, _)
build_segments_dropping(text, k, marked, segments, current_text, current_bold) ==
    IF k > Len(text)
    THEN IF current_text # <<>>
         THEN Append(segments, [text |-> current_text, bold |-> current_bold])
         ELSE segments
    ELSE LET should_bold == byte_offset(text, k) \in marked
             cb == IF k = 1 THEN should_bold ELSE current_bold
         IN IF should_bold # cb
            THEN build_segments_dropping(
                     text, k + 1, marked,
                     IF current_text # <<>>
                     THEN Append(segments, [text |-> current_text, bold |-> cb])
                     ELSE segments,
                     <<>>, should_bold)
            ELSE build_segments_dropping(text, k + 1, marked, segments,
                                         Append(current_text, text[k]), cb)

build_highlight_segments_dropping(text, terms) ==
    IF Len(terms) = 0 \/ \A t \in 1..Len(terms) : is_empty(terms[t])
    THEN << [text |-> text, bold |-> FALSE] >>
    ELSE LET segments == build_segments_dropping(text, 1, highlight_positions(text, terms),
                                                 <<>>, <<>>, FALSE)
         IN IF segments = <<>> THEN << [text |-> text, bold |-> FALSE] >> ELSE segments

build_highlight_segments(text, terms) ==
    IF Len(terms) = 0 \/ \A t \in 1..Len(terms) : is_empty(terms[t])
    THEN << [text |-> text, bold |-> FALSE] >>
    ELSE LET segments == build_segments_from(text, 1, highlight_positions(text, terms),
                                             <<>>, <<>>, FALSE)
         IN IF segments = <<>> THEN << [text |-> text, bold |-> FALSE] >> ELSE segments

(***************************************************************************)
(* Event Log and Frecency Scorer.                                          *)
(***************************************************************************)
\* LogEvent::Keystroke and LogEvent::Select, as the lines serde writes
Keystroke(ts, key) == [type |-> "keystroke", ts |-> ts, key |-> key]
Select(ts, code, query) == [type |-> "select", ts |-> ts, code |-> code, query |-> query]
\* a line serde_json::from_str::<LogEvent> rejects
Malformed == [type |-> "malformed"]

\* load_selections: the select lines, in file order, their queries lowercased
RECURSIVE load_selections_from(_, _, _)
load_selections_from(lines, k, acc) ==
    IF k > Len(lines) THEN acc
    ELSE IF lines[k].type = "select"
         THEN load_selections_from(lines, k + 1,
                  Append(acc, [code |-> lines[k].code,
                               query |-> to_lowercase(lines[k].query),
                               ts |-> lines[k].ts]))
         ELSE load_selections_from(lines, k + 1, acc)

load_selections(lines) == load_selections_from(lines, 1, <<>>)

\* log_event: the file after the call; open or write may fail, silently
log_event(lines, free, event) ==
    {lines} \cup (IF free > 0 THEN {Append(lines, event)} ELSE {})

\* queries_match with the arguments' roles confused: only stored-is-prefix counts
queries_match_one_way(current, stored) == starts_with(current, stored)

queries_match(current, stored) ==
    starts_with(current, stored) \/ starts_with(stored, current)

half_life_secs == 7 * 24 * 60 * 60

\* the clock when the window opens, and a later reading of the same session
ClockStart == 2 * half_life_secs
ClockEnd == ClockStart + half_life_secs
ClockReadings == {ClockStart, ClockEnd}

\* scores are f64 in the code; here a score s is the integer s * ScoreUnit,
\* exact for ages that are whole half-lives up to ClockEnd
ScoreUnit == 2 ^ (ClockEnd \div half_life_secs)

\* u64::saturating_sub
saturating_sub(a, b) == IF a >= b THEN a - b ELSE 0

\* 0.5_f64.powf(age_secs / half_life_secs)
decay_of(age_secs) == ScoreUnit \div (2 ^ (age_secs \div half_life_secs))

\* the loop of compute_frecency_for_query; scores is the HashMap so far
RECURSIVE frecency_from(_, _, _, _, _)
frecency_from(sels, k, current_lower, t, scores) ==
    IF k > Len(sels) THEN scores
    ELSE LET sel == sels[k] IN
         IF is_empty(current_lower) \/ queries_match(current_lower, sel.query)
         THEN LET age_secs == saturating_sub(t, sel.ts)
                  decay == decay_of(age_secs)
                  old == IF sel.code \in DOMAIN scores THEN scores[sel.code] ELSE 0
              IN frecency_from(sels, k + 1, current_lower, t,
                     [c \in DOMAIN scores \cup {sel.code} |->
                         IF c = sel.code THEN old + decay ELSE scores[c]])
         ELSE frecency_from(sels, k + 1, current_lower, t, scores)

\* t is what current_timestamp() returns inside the call
compute_frecency_for_query(sels, current_query, t) ==
    frecency_from(sels, 1, to_lowercase(current_query), t, <<>>)

(***************************************************************************)
(* Search Session.                                                         *)
(***************************************************************************)
NUM_SLOTS == 5

\* AppState::get_code
get_code(entry) ==
    LET parts == split_pipe(entry) IN
    IF Len(parts) >= 3 THEN <<parts[3]>> ELSE <<>>

\* the closure get_frecency of AppState::search
get_frecency(entry, frecency) ==
    LET code == get_code(entry) IN
    IF code # <<>> /\ code[1] \in DOMAIN frecency THEN frecency[code[1]] ELSE 0

\* Iterator::filter(|e| entry_matches_terms(e, &terms))
RECURSIVE filter_matching(_, _, _, _)
filter_matching(entries, terms, k, acc) ==
    IF k > Len(entries) THEN acc
    ELSE filter_matching(entries, terms, k + 1,
             IF entry_matches_terms(entries[k], terms)
             THEN Append(acc, entries[k]) ELSE acc)

\* where a stable descending sort puts e among the already sorted: before the
\* first element that scores strictly less
insert_by_frecency(sorted, e, frecency) ==
    LET fe == get_frecency(e, frecency)
        lower == {k \in 1..Len(sorted) : get_frecency(sorted[k], frecency) < fe}
        at == IF lower = {} THEN Len(sorted) + 1
              ELSE CHOOSE k \in lower : \A q \in lower : k <= q
    IN SubSeq(sorted, 1, at - 1) \o <<e>> \o SubSeq(sorted, at, Len(sorted))

\* slice::sort_by with the comparator fb.partial_cmp(&fa): stable, highest first
RECURSIVE sort_by_frecency_from(_, _, _, _)
sort_by_frecency_from(entries, frecency, k, sorted) ==
    IF k > Len(entries) THEN sorted
    ELSE sort_by_frecency_from(entries, frecency, k + 1,
                               insert_by_frecency(sorted, entries[k], frecency))

\* a sort with the comparator's arguments swapped: lowest first
sort_by_frecency_ascending(entries, frecency) ==
    LET RECURSIVE ins(_, _)
        ins(k, sorted) ==
            IF k > Len(entries) THEN sorted
            ELSE LET higher == {j \in 1..Len(sorted) :
                                   get_frecency(sorted[j], frecency)
                                       > get_frecency(entries[k], frecency)}
                     at == IF higher = {} THEN Len(sorted) + 1
                           ELSE CHOOSE j \in higher : \A q \in higher : j <= q
                 IN ins(k + 1, SubSeq(sorted, 1, at - 1) \o <<entries[k]>>
                                   \o SubSeq(sorted, at, Len(sorted)))
    IN ins(1, <<>>)

sort_by_frecency(entries, frecency) ==
    sort_by_frecency_from(entries, frecency, 1, <<>>)

\* take() forgotten: the whole list is kept
take_all(s, n) == s

\* Iterator::take(n)
take(s, n) == SubSeq(s, 1, IF Len(s) < n THEN Len(s) ELSE n)

\* self.matches as AppState::search leaves it; t is the clock the call reads
search_matches(corpus, sels, typed, t) ==
    LET query == to_lowercase(typed)
        terms == split_whitespace(query)
        frecency == compute_frecency_for_query(sels, query, t)
        filtered == sort_by_frecency(filter_matching(corpus, terms, 1, <<>>), frecency)
        first == take(filtered, NUM_SLOTS)
    IN IF first = <<>> /\ corpus # <<>>
       THEN take(sort_by_frecency(corpus, frecency), NUM_SLOTS)
       ELSE first

\* self.selected_index as AppState::search leaves it
clamp_index(index, found) ==
    LET max_idx == IF Len(found) - 1 > 0 THEN Len(found) - 1 ELSE 0
    IN IF index < max_idx THEN index ELSE max_idx

(***************************************************************************)
(* The corpora and log files a session may start from.                     *)
(***************************************************************************)
\* "<glyph>| <description>| <code>", written out character by character
E_sum == <<"a", "|", " ", "s", "u", "m", "|", " ", "1">>
E_Sm == <<"b", "|", " ", "S", "m", "|", " ", "2">>
E_ms == <<"c", "|", " ", "m", "s", "|", " ", "3">>
E_s_m == <<"d", "|", " ", "s", " ", "m", "|", " ", "4">>
E_sa == <<"e", "|", " ", "s", "a", "|", " ", "5">>
E_so == <<"g", "|", " ", "s", "o", "|", " ", "6">>
\* rows that do not split into three fields
E_junk == <<"j", "u", "n", "k">>
E_sa2 == <<"f", "|", " ", "s", "a">>
E_bar == <<"s", "|", "m">>

CorpusFull == <<E_sum, E_Sm, E_ms, E_junk, E_sa2, E_s_m, E_sa, E_so>>
CorpusMalformed == <<E_junk, E_bar>>
CorpusEmpty == <<>>

Corpora == {CorpusFull, CorpusMalformed, CorpusEmpty}

\* no file yet
LogNone == <<>>
\* history from earlier sessions, with telemetry, a damaged line and a record
\* stamped after this session's start (the clock was set back since)
LogHistory ==
    << Select(0, <<"6">>, <<>>),
       Keystroke(half_life_secs, <<"S">>),
       Select(half_life_secs, <<"3">>, <<"S", " ">>),
       Malformed,
       Select(ClockStart, <<"6">>, <<"s">>),
       Select(ClockStart + half_life_secs, <<"5">>, <<"S">>) >>

InitialLogs == {LogNone, LogHistory}

\* the key strings the window sends for typed characters
CharKeys == {<<"S">>, <<" ">>}

(***************************************************************************)
(* The session: main() and its handlers.                                   *)
(***************************************************************************)
\* AppState::new(), load_emojis() and the first search() in main
Init ==
    /\ emojis \in Corpora
    /\ log \in InitialLogs
    /\ selections = load_selections(log)
    /\ letters = <<>>
    /\ clock = ClockStart
    /\ now = clock
    /\ matches = search_matches(emojis, selections, letters, clock)
    /\ selected_index = clamp_index(0, matches)
    /\ selected_emoji = <<>>
    /\ visible = TRUE
    /\ disk_free = MaxLogAppends
    /\ args = <<>>
    /\ ret = <<>>

\* log_event(&LogEvent::...) inside a handler
LogEvent(event) ==
    /\ log' \in log_event(log, disk_free, event)
    /\ disk_free' = IF log' = log THEN disk_free ELSE disk_free - 1

\* state.search() after the handler has set letters' and the index
Search(index) ==
    /\ now' = clock
    /\ matches' = search_matches(emojis, selections, letters', clock)
    /\ selected_index' = clamp_index(index, matches')

\* on_key_pressed, "up"
KeyUp ==
    /\ visible
    /\ LogEvent(Keystroke(clock, <<"u", "p">>))
    /\ selected_index' = (IF selected_index - 1 > 0 THEN selected_index - 1 ELSE 0)
    /\ UNCHANGED <<emojis, selections, letters, matches, selected_emoji, visible,
                   clock, now, args, ret>>

\* "down" without the .min(max_idx)
KeyDownUnclamped ==
    /\ visible
    /\ LogEvent(Keystroke(clock, <<"d", "o", "w", "n">>))
    /\ selected_index' = selected_index + 1
    /\ UNCHANGED <<emojis, selections, letters, matches, selected_emoji, visible,
                   clock, now, args, ret>>

\* on_key_pressed, "down"
KeyDown ==
    /\ visible
    /\ LogEvent(Keystroke(clock, <<"d", "o", "w", "n">>))
    /\ LET max_idx == IF Len(matches) - 1 > 0 THEN Len(matches) - 1 ELSE 0
       IN selected_index' = (IF selected_index + 1 < max_idx
                             THEN selected_index + 1 ELSE max_idx)
    /\ UNCHANGED <<emojis, selections, letters, matches, selected_emoji, visible,
                   clock, now, args, ret>>

\* "backspace" without the state.search() call
KeyBackspaceNoSearch ==
    /\ visible
    /\ LogEvent(Keystroke(clock, <<"b", "a", "c", "k", "s", "p", "a", "c", "e">>))
    /\ letters' = (IF Len(letters) > 0 THEN SubSeq(letters, 1, Len(letters) - 1)
                   ELSE letters)
    /\ selected_index' = 0
    /\ UNCHANGED <<emojis, selections, matches, selected_emoji, visible, clock,
                   now, args, ret>>

\* on_key_pressed, "backspace"
KeyBackspace ==
    /\ visible
    /\ LogEvent(Keystroke(clock, <<"b", "a", "c", "k", "s", "p", "a", "c", "e">>))
    /\ letters' = (IF Len(letters) > 0 THEN SubSeq(letters, 1, Len(letters) - 1)
                   ELSE letters)
    /\ Search(0)
    /\ UNCHANGED <<emojis, selections, selected_emoji, visible, clock, args, ret>>

\* on_key_pressed, "ctrl-backspace"
KeyCtrlBackspace ==
    /\ visible
    /\ LogEvent(Keystroke(clock, <<"c", "t", "r", "l", "-", "b", "a", "c", "k",
                                   "s", "p", "a", "c", "e">>))
    /\ letters' = <<>>
    /\ Search(0)
    /\ UNCHANGED <<emojis, selections, selected_emoji, visible, clock, args, ret>>

\* on_key_pressed, "shift"
KeyShift ==
    /\ visible
    /\ LogEvent(Keystroke(clock, <<"s", "h", "i", "f", "t">>))
    /\ UNCHANGED <<emojis, selections, letters, matches, selected_index,
                   selected_emoji, visible, clock, now, args, ret>>

\* on_key_pressed, any other key: its characters are typed
KeyChars ==
    \E key \in CharKeys :
        /\ visible
        /\ Len(letters) + Len(key) <= MaxLetters
        /\ LogEvent(Keystroke(clock, key))
        /\ letters' = letters \o key
        /\ Search(0)
        /\ UNCHANGED <<emojis, selections, selected_emoji, visible, clock, args, ret>>

\* the emoji field get_emoji_entries gives the row under the cursor: what the
\* window passes to on_emoji_selected; the empty string when there is no row
shown_emojis ==
    IF selected_index + 1 <= Len(matches)
    THEN { IF Len(split_pipe(matches[selected_index + 1])) >= 3
           THEN split_pipe(matches[selected_index + 1])[1] ELSE <<>> }
    ELSE { <<>> }

\* on_emoji_selected reading the first row of the MatchSet instead of the row
\* under the cursor
EmojiSelectedFirstRow ==
    \E emoji \in shown_emojis :
        /\ visible
        /\ LET query == letters
           IN IF 1 <= Len(matches) /\ Len(split_pipe(matches[1])) >= 3
              THEN LogEvent(Select(clock, split_pipe(matches[1])[3], query))
              ELSE UNCHANGED <<log, disk_free>>
        /\ selected_emoji' = <<emoji>>
        /\ visible' = FALSE
        /\ UNCHANGED <<emojis, selections, letters, matches, selected_index,
                       clock, now, args, ret>>

\* on_emoji_selected: log the pick, remember the glyph, hide the window
EmojiSelected ==
    \E emoji \in shown_emojis :
        /\ visible
        /\ LET query == letters
               idx == selected_index + 1
           IN IF idx <= Len(matches) /\ Len(split_pipe(matches[idx])) >= 3
              THEN LogEvent(Select(clock, split_pipe(matches[idx])[3], query))
              ELSE UNCHANGED <<log, disk_free>>
        /\ selected_emoji' = <<emoji>>
        /\ visible' = FALSE
        /\ UNCHANGED <<emojis, selections, letters, matches, selected_index,
                       clock, now, args, ret>>

\* on_close_requested
CloseRequested ==
    /\ visible
    /\ visible' = FALSE
    /\ UNCHANGED <<emojis, selections, letters, matches, selected_index,
                   selected_emoji, log, clock, now, disk_free, args, ret>>

\* time passes between two events: SystemTime::now() moves on
Tick ==
    /\ visible
    /\ clock' \in {t \in ClockReadings : t > clock}
    /\ UNCHANGED <<emojis, selections, letters, matches, selected_index,
                   selected_emoji, visible, log, now, disk_free, args, ret>>

Next ==
    \/ KeyUp
    \/ KeyDown
    \/ KeyBackspace
    \/ KeyCtrlBackspace
    \/ KeyShift
    \/ KeyChars
    \/ EmojiSelected
    \/ CloseRequested
    \/ Tick

Spec == Init /\ [][Next]_vars

(***************************************************************************)
(* The pure functions, each called once on arguments drawn from a bounded  *)
(* set.  No session runs meanwhile.                                        *)
(***************************************************************************)
\* every string over `alphabet` of at most n characters
Strings(alphabet, n) == UNION {[1..k -> alphabet] : k \in 0..n}

\* every sequence over `items` of at most n elements
Lists(items, n) == UNION {[1..k -> items] : k \in 0..n}

NoSession ==
    /\ emojis = <<>>
    /\ selections = <<>>
    /\ letters = <<>>
    /\ matches = <<>>
    /\ selected_index = 0
    /\ selected_emoji = <<>>
    /\ visible = FALSE
    /\ log = <<>>
    /\ clock = ClockStart
    /\ now = ClockStart
    /\ disk_free = 0
    /\ ret = <<>>

MatchAlphabet == {"s", "m", "l"}

InitTermMatch ==
    /\ NoSession
    /\ args \in [fn : {"term_matches_word"},
                 term : Strings(MatchAlphabet, MaxTermLen),
                 word : Strings(MatchAlphabet, MaxWordLen)]

CallTermMatchesWord ==
    /\ args.fn = "term_matches_word"
    /\ ret = <<>>
    /\ ret' = <<term_matches_word(args.term, args.word)>>
    /\ UNCHANGED <<session_vars, args>>

SpecTermMatch == InitTermMatch /\ [][CallTermMatchesWord]_vars

EntryAlphabet == {"s", "A", "|", " "}
EntryTerms == {<<>>, <<"s">>, <<"a", "s">>}

InitEntryMatch ==
    /\ NoSession
    /\ args \in [fn : {"entry_matches_terms"},
                 entry : Strings(EntryAlphabet, MaxEntryLen),
                 terms : Lists(EntryTerms, MaxTerms)]

CallEntryMatchesTerms ==
    /\ args.fn = "entry_matches_terms"
    /\ ret = <<>>
    /\ ret' = <<entry_matches_terms(args.entry, args.terms)>>
    /\ UNCHANGED <<session_vars, args>>

SpecEntryMatch == InitEntryMatch /\ [][CallEntryMatchesTerms]_vars

TextAlphabet == {"s", "a", "É", " "}
HighlightTerms == {<<>>, <<"s">>, <<"s", "a">>, <<"é", "s">>}

InitHighlight ==
    /\ NoSession
    /\ args \in [fn : {"build_highlight_segments"},
                 text : Strings(TextAlphabet, MaxTextLen),
                 terms : Lists(HighlightTerms, MaxTerms)]

CallBuildHighlightSegments ==
    /\ args.fn = "build_highlight_segments"
    /\ ret = <<>>
    /\ ret' = <<build_highlight_segments(args.text, args.terms)>>
    /\ UNCHANGED <<session_vars, args>>

SpecHighlight == InitHighlight /\ [][CallBuildHighlightSegments]_vars

\* select lines of a log file; load_selections makes them the Selection values
FrecencyLines ==
    { Select(ts, code, query) :
        ts \in {0, ClockEnd}, code \in {<<"1">>, <<"2">>},
        query \in {<<>>, <<"S">>, <<"s", "m">>, <<"m">>} }
FrecencyQueries == {<<>>, <<"s">>, <<"S", "m">>, <<"s", "m", "s">>, <<"l">>}

InitFrecency ==
    /\ NoSession
    /\ \E lines \in Lists(FrecencyLines, MaxSelections) :
          args \in [fn : {"compute_frecency_for_query"},
                    selections : {load_selections(lines)},
                    current_query : FrecencyQueries,
                    t : ClockReadings]

CallComputeFrecency ==
    /\ args.fn = "compute_frecency_for_query"
    /\ ret = <<>>
    /\ ret' = <<compute_frecency_for_query(args.selections, args.current_query, args.t)>>
    /\ UNCHANGED <<session_vars, args>>

SpecFrecency == InitFrecency /\ [][CallComputeFrecency]_vars

\* find_fuzzy_match_indices on every term and word over a small alphabet with
\* a two-byte letter and an upper-case letter
FuzzyAlphabet == {"s", "é", "S"}

InitFuzzyIndices ==
    /\ NoSession
    /\ args \in [fn : {"find_fuzzy_match_indices"},
                 term : Strings(FuzzyAlphabet, MaxTermLen),
                 word : Strings(FuzzyAlphabet, MaxWordLen)]

CallFindFuzzyMatchIndices ==
    /\ args.fn = "find_fuzzy_match_indices"
    /\ ret = <<>>
    /\ ret' = <<find_fuzzy_match_indices(args.term, args.word)>>
    /\ UNCHANGED <<session_vars, args>>

SpecFuzzyIndices == InitFuzzyIndices /\ [][CallFindFuzzyMatchIndices]_vars

(***************************************************************************)
(* Vocabulary of the properties, stated without the code's own parsing.    *)
(***************************************************************************)
\* where "| " occurs in a row
Separators(entry) ==
    {i \in 1..(Len(entry) - 1) : entry[i] = "|" /\ entry[i + 1] = " "}

\* the number of "| "-delimited fields of a row
FieldCount(entry) == Cardinality(Separators(entry)) + 1

\* the second field of a row that has one: from after the first "| " up to
\* the next "| " or the end of the row
DescriptionOf(entry) ==
    LET seps == Separators(entry)
        p1 == CHOOSE i \in seps : \A j \in seps : i <= j
        later == {i \in seps : i > p1 + 1}
        last == IF later = {} THEN Len(entry)
                ELSE (CHOOSE i \in later : \A j \in later : i <= j) - 1
    IN SubSeq(entry, p1 + 2, last)

\* the whitespace-separated words of a text: its maximal runs without a blank
WordsOf(text) ==
    { SubSeq(text, a, b) :
        <<a, b>> \in { ab \in (1..Len(text)) \X (1..Len(text)) :
                         /\ ab[1] <= ab[2]
                         /\ \A i \in ab[1]..ab[2] : ~is_whitespace(text[i])
                         /\ ab[1] = 1 \/ is_whitespace(text[ab[1] - 1])
                         /\ ab[2] = Len(text) \/ is_whitespace(text[ab[2] + 1]) } }

Min(a, b) == IF a < b THEN a ELSE b

\* the terms of the typed query, and the corpus rows (by position) matching them
CurrentTerms == split_whitespace(to_lowercase(letters))
MatchingRows == {k \in 1..Len(emojis) : entry_matches_terms(emojis[k], CurrentTerms)}

\* the frecency the last search ranked by, and a row's score under a frecency
SearchFrecency == compute_frecency_for_query(selections, to_lowercase(letters), now)
RowScore(k, frecency) == get_frecency(emojis[k], frecency)

\* the place of row k among the rows `rows`, highest score first, rows of equal
\* score in corpus order
RankAmong(k, rows, frecency) ==
    1 + Cardinality({j \in rows :
            \/ RowScore(j, frecency) > RowScore(k, frecency)
            \/ RowScore(j, frecency) = RowScore(k, frecency) /\ j < k})

\* found is exactly the first NUM_SLOTS of `rows` in that order
IsTopRanked(found, rows, frecency) ==
    /\ Len(found) = Min(NUM_SLOTS, Cardinality(rows))
    /\ \A k \in rows :
          RankAmong(k, rows, frecency) <= NUM_SLOTS
              => found[RankAmong(k, rows, frecency)] = emojis[k]

(***************************************************************************)
(* C1.  The MatchSet never holds more than NUM_SLOTS (5) entries, whatever *)
(* the corpus, the loaded history and the keys pressed, the fallback       *)
(* ranking of the whole corpus included.                                   *)
(***************************************************************************)
C1_MatchSetAtMostNumSlots == Len(matches) <= NUM_SLOTS

\* the fallback ranked a corpus of more than five rows and kept five
C1_Witness ==
    /\ letters # <<>>
    /\ MatchingRows = {}
    /\ Len(emojis) > NUM_SLOTS
    /\ Len(matches) = NUM_SLOTS

(***************************************************************************)
(* C2.  selected_index is always a valid index of a non-empty MatchSet and *)
(* 0 for an empty one; cursor up at index 0 and cursor down at the last    *)
(* index leave it where it is.                                             *)
(***************************************************************************)
SelectedIndexInRange ==
    IF Len(matches) = 0 THEN selected_index = 0
    ELSE 0 <= selected_index /\ selected_index < Len(matches)

C2_SelectedIndexValid ==
    /\ []SelectedIndexInRange
    /\ [][KeyUp /\ selected_index = 0 => selected_index' = 0]_vars
    /\ [][KeyDown /\ selected_index = Len(matches) - 1
             => selected_index' = selected_index]_vars

\* the cursor has walked down to the last of five slots
C2_Witness ==
    /\ Len(matches) = NUM_SLOTS
    /\ selected_index = NUM_SLOTS - 1

(***************************************************************************)
(* C3.  When some row matches all terms, the MatchSet is the first five of *)
(* the matching rows by descending frecency score, equal scores in corpus  *)
(* order.  As amended: an empty query with no history returns the first    *)
(* five rows that have at least two fields, in corpus order (the first     *)
(* five rows of the corpus when none has two fields).                      *)
(***************************************************************************)
RankedWhenSomeRowMatches ==
    MatchingRows # {} => IsTopRanked(matches, MatchingRows, SearchFrecency)

TwoFieldRows == {k \in 1..Len(emojis) : FieldCount(emojis[k]) >= 2}

AllSelectionsFrecency == compute_frecency_for_query(selections, <<>>, now)

C4_FallbackRanksByAllSelections ==
    ((CurrentTerms = <<>> \/ MatchingRows = {}) /\ emojis # <<>>)
        => /\ Len(matches) = Min(NUM_SLOTS, Len(emojis))
           /\ \A i, j \in 1..Len(matches) :
                 i < j => get_frecency(matches[i], AllSelectionsFrecency)
                              >= get_frecency(matches[j], AllSelectionsFrecency)
           /\ \A k \in 1..Len(emojis) :
                 (\E i \in 1..Len(matches) :
                      RowScore(k, AllSelectionsFrecency)
                          > get_frecency(matches[i], AllSelectionsFrecency))
                     => \E i \in 1..Len(matches) : matches[i] = emojis[k]

(***************************************************************************)
(* C5.  A malformed row, one with fewer than three "| "-delimited fields,  *)
(* never appears in the MatchSet.                                          *)
(***************************************************************************)
C5_NoMalformedRowInMatchSet ==
    \A i \in 1..Len(matches) : FieldCount(matches[i]) >= 3

(***************************************************************************)
(* C6.  term_matches_word(term, word) is true exactly when the term is     *)
(* empty, or its first character is the word's first character and the     *)
(* rest of the term embeds, in order, into the rest of the word; so it is  *)
(* true for ("sm","smile"), ("sm","small") and ("", any word) and false    *)
(* for ("ml","smile").                                                     *)
(***************************************************************************)
AnchoredSubsequence(term, word) ==
    \/ Len(term) = 0
    \/ /\ Len(word) > 0
       /\ term[1] = word[1]
       /\ \E f \in [2..Len(term) -> 2..Len(word)] :
             /\ \A i, j \in 2..Len(term) : i < j => f[i] < f[j]
             /\ \A i \in 2..Len(term) : word[f[i]] = term[i]

C6_TermMatchesIffAnchoredSubsequence ==
    /\ ret # <<>> => ret[1] = AnchoredSubsequence(args.term, args.word)
    /\ term_matches_word(<<"s", "m">>, <<"s", "m", "i", "l", "e">>)
    /\ term_matches_word(<<"s", "m">>, <<"s", "m", "a", "l", "l">>)
    /\ ~term_matches_word(<<"m", "l">>, <<"s", "m", "i", "l", "e">>)
    /\ term_matches_word(<<>>, <<"s", "m", "i", "l", "e">>)
    /\ term_matches_word(<<>>, <<>>)

\* a match whose characters are not adjacent in the word, the first candidate
\* for the second term character being taken
C6_Witness ==
    /\ ret = <<TRUE>>
    /\ args.term = <<"s", "m", "l">>
    /\ args.word = <<"s", "m", "m", "l">>

(***************************************************************************)
(* C7.  entry_matches_terms(entry, terms) is true exactly when the row has *)
(* at least two "| "-delimited fields and every term matches at least one  *)
(* whitespace-separated word of the lowercased description.  As amended:   *)
(* every non-empty term; an empty term is satisfied even by a description  *)
(* that has no word.                                                       *)
(***************************************************************************)
TermHasWord(term, entry) ==
    \E word \in WordsOf(to_lowercase(DescriptionOf(entry))) :
        term_matches_word(term, word)

RECURSIVE ConcatTexts(_)
ConcatTexts(segments) ==
    IF segments = <<>> THEN <<>>
    ELSE segments[1].text \o ConcatTexts(Tail(segments))

C8_SegmentsConcatenateToText ==
    ret # <<>> => ConcatTexts(ret[1]) = args.text

\* a text repeating a word, both occurrences highlighted around a plain blank
C8_Witness ==
    /\ ret # <<>>
    /\ args.text = <<"s", " ", "s">>
    /\ args.terms = << <<"s">> >>
    /\ Len(ret[1]) = 3
    /\ ret[1][1].bold /\ ~ret[1][2].bold /\ ret[1][3].bold

(***************************************************************************)
(* C9.  compute_frecency_for_query counts a selection towards its code's   *)
(* score exactly when its stored query is prefix-related to the current    *)
(* query, lowercased: one of the two is empty or a prefix of the other.    *)
(* Other selections add nothing, and a code without a counted selection    *)
(* is absent from the map.                                                 *)
(***************************************************************************)
IsPrefixOf(p, q) == Len(p) <= Len(q) /\ SubSeq(q, 1, Len(p)) = p

PrefixRelated(a, b) ==
    Len(a) = 0 \/ Len(b) = 0 \/ IsPrefixOf(a, b) \/ IsPrefixOf(b, a)

\* the selections (by position) the claim counts for the current query
CountedSelections ==
    {k \in 1..Len(args.selections) :
        PrefixRelated(to_lowercase(args.current_query), args.selections[k].query)}

RECURSIVE DecaySum(_)
DecaySum(ks) ==
    IF ks = {} THEN 0
    ELSE LET k == CHOOSE x \in ks : TRUE
         IN decay_of(saturating_sub(args.t, args.selections[k].ts))
                + DecaySum(ks \ {k})

C9_CountsExactlyPrefixRelated ==
    ret # <<>> =>
        /\ DOMAIN ret[1] = {args.selections[k].code : k \in CountedSelections}
        /\ \A code \in DOMAIN ret[1] :
              ret[1][code] = DecaySum({k \in CountedSelections :
                                          args.selections[k].code = code})

\* of two selections of one code, one stored under a longer query of which
\* the current one is a prefix, the other under an unrelated query
C9_Witness ==
    /\ ret # <<>>
    /\ Len(args.selections) = 2
    /\ args.current_query = <<"s">>
    /\ args.selections[1].query = <<"s", "m">>
    /\ args.selections[2].query = <<"m">>
    /\ args.selections[1].code = args.selections[2].code
    /\ CountedSelections = {1}
    /\ DOMAIN ret[1] = {args.selections[1].code}

(***************************************************************************)
(* C10.  The MatchSet is always what the search computes from the letters, *)
(* the corpus and the selections loaded at the start.  As amended: and     *)
(* the clock reading of the last search.  Typing, delete-last and          *)
(* clear-all end with selected_index = 0 and the MatchSet recomputed;      *)
(* cursor up and down leave letters and MatchSet alone; recomputing at the *)
(* same clock reading gives the same MatchSet.                             *)
(***************************************************************************)
C10_MatchSetIsLastSearchResult ==
    /\ [](matches = search_matches(emojis, selections, letters, now))
    /\ [][emojis' = emojis /\ selections' = selections]_vars
    /\ [][(KeyChars \/ KeyBackspace \/ KeyCtrlBackspace)
             => selected_index' = 0 /\ now' = clock]_vars
    /\ [][(KeyUp \/ KeyDown) => letters' = letters /\ matches' = matches]_vars

\* after a later clock reading, the query has been deleted down to "" and the
\* MatchSet is the ranked corpus again
C10_Witness ==
    /\ letters = <<>>
    /\ now = ClockEnd
    /\ selections # <<>>
    /\ Len(matches) = NUM_SLOTS
    /\ \E i \in 1..Len(log) :
          log[i] = Keystroke(ClockEnd, <<"b", "a", "c", "k", "s", "p", "a", "c", "e">>)

\* C10 as first stated: recomputing from letters, corpus and selections alone,
\* whenever it is done, gives the MatchSet on display
C10_AsStated == matches = search_matches(emojis, selections, letters, clock)

(***************************************************************************)
(* C11: the select records of the Event Log.                               *)
(***************************************************************************)
\* the select records of a log, in order
SelectRecords(lines) == SelectSeq(lines, LAMBDA line : line.type = "select")

\* the third field of a row that has one: from after the second "| " up to
\* the next "| " or the end of the row
CodeOf(entry) ==
    LET seps == Separators(entry)
        p1 == CHOOSE i \in seps : \A j \in seps : i <= j
        after1 == {i \in seps : i > p1 + 1}
        p2 == CHOOSE i \in after1 : \A j \in after1 : i <= j
        after2 == {i \in seps : i > p2 + 1}
        last == IF after2 = {} THEN Len(entry)
                ELSE (CHOOSE i \in after2 : \A j \in after2 : i <= j) - 1
    IN SubSeq(entry, p2 + 2, last)

\* a row is under the cursor
EntryAtCursor == selected_index + 1 <= Len(matches)

\* every step keeps the records already in the log, in place
LogOnlyGrowsAtTheEnd ==
    [][Len(log') >= Len(log) /\ SubSeq(log', 1, Len(log)) = log]_vars

\* a step that is not a commit leaves the select records as they are
OnlyCommitTouchesSelectRecords ==
    [][~EmojiSelected => SelectRecords(log') = SelectRecords(log)]_vars

\* C11: a commit with a row of at least three fields under the cursor appends
\* at most one record: either the log write fails and the log is unchanged,
\* or exactly one select record is appended, carrying the row's third field,
\* the query as typed and the clock reading.  A commit with no row under the
\* cursor, or a row of fewer than three fields, leaves the log unchanged.
\* Every step keeps the earlier records in place, and no step other than a
\* commit adds, edits or removes a select record.
C11_CommitAppendsAtMostOneSelect ==
    /\ [][EmojiSelected =>
             IF EntryAtCursor /\ FieldCount(matches[selected_index + 1]) >= 3
             THEN \/ log' = log
                  \/ log' = Append(log, Select(clock,
                                               CodeOf(matches[selected_index + 1]),
                                               letters))
             ELSE log' = log]_vars
    /\ LogOnlyGrowsAtTheEnd
    /\ OnlyCommitTouchesSelectRecords

\* a commit was logged after the cursor was moved off the first row and with
\* an upper-case query: the last record carries the code of the row under
\* the cursor and the query as typed
C11_Witness ==
    /\ ~visible
    /\ selected_emoji # <<>>
    /\ selected_index > 0
    /\ letters = <<"S">>
    /\ EntryAtCursor
    /\ FieldCount(matches[selected_index + 1]) >= 3
    /\ FieldCount(matches[1]) >= 3
    /\ log # <<>>
    /\ log[Len(log)] = Select(clock, CodeOf(matches[selected_index + 1]), letters)
    /\ CodeOf(matches[selected_index + 1]) # CodeOf(matches[1])

\* C11 as first stated: every commit with a row under the cursor appends
\* exactly one select record with the current query (and the row's code when
\* it has one); a commit with no row appends nothing; earlier records stay;
\* no other step touches the select records
C11_AsStated ==
    /\ [][EmojiSelected =>
             IF EntryAtCursor
             THEN /\ Len(log') = Len(log) + 1
                  /\ log'[Len(log')].type = "select"
                  /\ log'[Len(log')].query = letters
                  /\ FieldCount(matches[selected_index + 1]) >= 3
                        => log'[Len(log')].code = CodeOf(matches[selected_index + 1])
             ELSE SelectRecords(log') = SelectRecords(log)]_vars
    /\ LogOnlyGrowsAtTheEnd
    /\ OnlyCommitTouchesSelectRecords

(***************************************************************************)
(* C12: the highlighter's match against the matcher's rule.                *)
(***************************************************************************)
\* a string without upper-case letters
IsLowercase(s) == \A i \in 1..Len(s) : \A u \in 1..Len(UpperCase) : s[i] # UpperCase[u]

\* the word characters (by position) that start at a byte offset
CharsAtByte(word, offset) == {k \in 1..Len(word) : byte_offset(word, k) = offset}

\* C12: for every non-empty lowercase term and lowercase word,
\* find_fuzzy_match_indices(term, word) returns Some exactly when
\* term_matches_word(term, word) is true; the returned sequence has one index
\* per term character, starts at the word's first character (offset 0), is
\* strictly increasing, and each index is the offset of a word character
\* equal to the corresponding term character.
C12_FuzzyIndicesAgreeWithMatcher ==
    (/\ ret # <<>>
     /\ args.fn = "find_fuzzy_match_indices"
     /\ ~is_empty(args.term)
     /\ IsLowercase(args.term)
     /\ IsLowercase(args.word))
    => LET result == ret[1]
       IN /\ (result # <<>>) <=> term_matches_word(args.term, args.word)
          /\ result # <<>> =>
                LET indices == result[1]
                IN /\ Len(indices) = Len(args.term)
                   /\ indices[1] = 0
                   /\ \A i \in 1..(Len(indices) - 1) : indices[i] < indices[i + 1]
                   /\ \A i \in 1..Len(indices) :
                         \E k \in CharsAtByte(args.word, indices[i]) :
                             args.word[k] = args.term[i]

\* a match that skips a two-byte letter: the second index is the byte offset
\* of the third character
C12_Witness ==
    /\ args.fn = "find_fuzzy_match_indices"
    /\ args.term = <<"é", "s">>
    /\ args.word = <<"é", "é", "s">>
    /\ ret = << << <<0, 4>> >> >>
    /\ term_matches_word(args.term, args.word)

====
